---- MODULE Spec2Model ----
(***************************************************************************)
(* Multi-query retrieval pipeline of main.ipynb: expand_query,            *)
(* retrieve_documents (fan-out similarity search, deduplication,          *)
(* truncation), format_doc / clean_text and the rag_chain that            *)
(* answer_question invokes.                                                *)
(*                                                                         *)
(* Text is a sequence of one-character strings.  The generation service   *)
(* (llm) and the vector index (vector_store) are external: their replies  *)
(* are chosen nondeterministically, and each call may also raise.         *)
(***************************************************************************)
EXTENDS Integers, Sequences, FiniteSets, TLC

\* ------------------------------------------------------------------ bounds
\* Largest fan-out width k passed to a direct retrieve_documents call.
MaxK == 2
\* Longest reply of the generation service to the expansion prompt.
MaxReplyLen == 3

\* ------------------------------------------------------- program constants
\* k: int = 2, the default fan-out width of retrieve_documents.
DefaultK == 2
\* unique_docs[:2], the final limit N.
FinalLimit == 2

\* ------------------------------------------------------------------- text
NL == "\n"
SP == " "
\* The characters str.strip() removes, among those the model uses.
Whitespace == {SP, NL}
\* Characters of an expansion reply.
ReplyChars == {"a", "b", SP, NL}

Min(a, b) == IF a < b THEN a ELSE b

\* str.replace(old, new) for one-character old and new.
Replace(text, old, new) ==
    [i \in 1..Len(text) |-> IF text[i] = old THEN new ELSE text[i]]

RECURSIVE LStrip(_)
LStrip(text) ==
    IF text = <<>> \/ Head(text) \notin Whitespace
    THEN text
    ELSE LStrip(Tail(text))

RECURSIVE RStrip(_)
RStrip(text) ==
    IF text = <<>> \/ text[Len(text)] \notin Whitespace
    THEN text
    ELSE RStrip(SubSeq(text, 1, Len(text) - 1))

\* str.strip(): leading and trailing whitespace removed.
Strip(text) == RStrip(LStrip(text))

\* str.split(sep) for a one-character sep: always at least one field.
RECURSIVE Split(_, _)
Split(text, sep) ==
    IF \A i \in 1..Len(text) : text[i] # sep
    THEN <<text>>
    ELSE LET i == CHOOSE n \in 1..Len(text) :
                      text[n] = sep /\ \A m \in 1..(n - 1) : text[m] # sep
         IN  <<SubSeq(text, 1, i - 1)>> \o Split(SubSeq(text, i + 1, Len(text)), sep)

\* sep.join(parts)
RECURSIVE Join(_, _)
Join(sep, parts) ==
    IF parts = <<>> THEN <<>>
    ELSE IF Len(parts) = 1 THEN parts[1]
    ELSE parts[1] \o sep \o Join(sep, Tail(parts))

\* ------------------------------------------------------------- clean_text
\* clean_text without its .strip()
CleanNoStrip(text) == Replace(text, NL, SP)

clean_text(text) == Strip(Replace(text, NL, SP))

\* ------------------------------------------------------------- format_doc
format_doc(docs) ==
    LET cleaned_docs == [i \in 1..Len(docs) |-> clean_text(docs[i].page_content)]
    IN  Join(<<NL, NL>>, cleaned_docs)

\* ----------------------------------------------------------- expand_query
\* [q.strip() for q in result.split("\n") if q.strip()]
ParseQueries(result) ==
    LET lines == Split(result, NL)
        kept  == SelectSeq(lines, LAMBDA q : Strip(q) # <<>>)
    IN  [i \in 1..Len(kept) |-> Strip(kept[i])]

\* StrOutputParser: the text of the model's message.
StrOutputParser(message) == message.content

\* ------------------------------------------------------ the indexed corpus
\* splitted_docs as held by vector_store: Documents with page_content and
\* metadata.  Two chunks share their exact content, one differs from them
\* only in surrounding whitespace, one has an embedded line break.
Corpus ==
    << [page_content |-> <<"a">>,          metadata |-> 1],
       [page_content |-> <<NL, "a", SP>>,  metadata |-> 2],
       [page_content |-> <<"a", NL, "b">>, metadata |-> 3],
       [page_content |-> <<"a">>,          metadata |-> 4] >>

Documents == {Corpus[i] : i \in 1..Len(Corpus)}

\* vector_store.similarity_search(q, k=k): up to k distinct chunks, in the
\* index's order of similarity.
SearchResults(k) ==
    {docs \in UNION {[1..n -> Documents] : n \in 0..Min(k, Len(Corpus))} :
        \A i, j \in 1..Len(docs) : i # j => docs[i] # docs[j]}

\* --------------------------------------------------- retrieve_documents
\* seen kept from the previous invocation instead of starting empty
KeepSeen(prev) == prev

\* seen = set()
NewSeen(prev) == {}

\* a membership test that never finds the content
IsNewAlways(doc, seen_now) == doc.page_content \notin {}

\* doc.page_content not in seen
IsNew(doc, seen_now) == doc.page_content \notin seen_now

\* unique_docs.insert(0, doc) in place of append
KeepFront(unique, doc) == <<doc>> \o unique

\* unique_docs.append(doc)
Keep(unique, doc) == Append(unique, doc)

\* the loop over all_docs, from position i on
RECURSIVE DedupLoop(_, _, _, _)
DedupLoop(docs, i, seen_now, unique) ==
    IF i > Len(docs)
    THEN [seen |-> seen_now, unique_docs |-> unique]
    ELSE IF IsNew(docs[i], seen_now)
         THEN DedupLoop(docs, i + 1, seen_now \cup {docs[i].page_content},
                        Keep(unique, docs[i]))
         ELSE DedupLoop(docs, i + 1, seen_now, unique)

\* return unique_docs, the slice forgotten
TruncateNone(unique) == unique

\* unique_docs[-2:]
TruncateLast(unique) ==
    SubSeq(unique, Len(unique) - Min(FinalLimit, Len(unique)) + 1, Len(unique))

\* unique_docs[:1]
TruncateOne(unique) == SubSeq(unique, 1, Min(1, Len(unique)))

\* unique_docs[:2]
Truncate(unique) == SubSeq(unique, 1, Min(FinalLimit, Len(unique)))

\* lines 180-187: deduplicate all_docs, return the first two
Aggregate(docs, prev) ==
    LET r == DedupLoop(docs, 1, NewSeen(prev), <<>>)
    IN  [seen |-> r.seen, result |-> Truncate(r.unique_docs)]

\* the candidate queries walked from the last to the first
ReversedQuery(queries, i) == queries[Len(queries) - i + 1]

\* the query of the i-th similarity search
NextQuery(queries, i) == queries[i]

\* --------------------------------------------------------------- the state
Questions == {<<"a">>, <<"b", SP, "a">>}

Replies == UNION {[1..n -> ReplyChars] : n \in 0..MaxReplyLen}

Refusal == <<"n", "o">>

\* Texts the generation service may return for the final prompt.
Answers == {<<"a">>, Refusal}

NoAnswer == <<"-">>

NoMessage == [content |-> NoAnswer]

VARIABLES
    pc,                 \* where the running invocation stands
    mode,               \* "answer": answer_question; "retrieve": retrieve_documents called directly
    question,           \* the invocation's argument
    k,                  \* fan-out width of the invocation
    expanded_questions, \* retrieve_documents' local
    qi,                 \* 1-based position of the for loop over expanded_questions
    all_docs,           \* retrieve_documents' local
    seen,               \* the value last bound to retrieve_documents' local seen
    unique_docs,        \* the list retrieve_documents returned
    context,            \* output of format_doc
    response,           \* the message the generation service returned for the final prompt
    answer,             \* the text answer_question returned
    calls,              \* external calls of this invocation, in order
    failedAt,           \* the stage whose service call raised, or "none"
    surfaced            \* page_contents returned by earlier invocations

vars == <<pc, mode, question, k, expanded_questions, qi, all_docs, seen,
          unique_docs, context, response, answer, calls, failedAt, surfaced>>

Call(svc, purpose, text, ctx, width) ==
    [svc |-> svc, purpose |-> purpose, text |-> text, ctx |-> ctx, k |-> width]

Contents(docs) == {docs[i].page_content : i \in 1..Len(docs)}

Init ==
    /\ pc = "idle"
    /\ mode = "answer"
    /\ question = <<>>
    /\ k = DefaultK
    /\ expanded_questions = <<>>
    /\ qi = 1
    /\ all_docs = <<>>
    /\ seen = {}
    /\ unique_docs = <<>>
    /\ context = <<>>
    /\ response = NoMessage
    /\ answer = NoAnswer
    /\ calls = <<>>
    /\ failedAt = "none"
    /\ surfaced = {}

Finished == pc \in {"idle", "done", "returned", "failed"}

\* A new invocation begins with fresh locals and an empty call log.  seen
\* keeps the value last bound to it until line 180 rebinds it; surfaced
\* records what the invocations so far have returned.
Begin(m, q, width) ==
    /\ Finished
    /\ pc' = "expand"
    /\ mode' = m
    /\ question' = q
    /\ k' = width
    /\ expanded_questions' = <<>>
    /\ qi' = 1
    /\ all_docs' = <<>>
    /\ unique_docs' = <<>>
    /\ context' = <<>>
    /\ response' = NoMessage
    /\ answer' = NoAnswer
    /\ calls' = <<>>
    /\ failedAt' = "none"
    /\ surfaced' = surfaced \cup Contents(unique_docs)
    /\ UNCHANGED seen

\* answer_question(question): rag_chain.invoke(question); the chain calls
\* retrieve_documents with its default k.
answer_question ==
    \E q \in Questions : Begin("answer", q, DefaultK)

\* retrieve_documents(question, k) called on its own.
retrieve_documents ==
    \E q \in Questions, width \in 0..MaxK : Begin("retrieve", q, width)

\* a failed similarity search is swallowed and the loop goes on
OnErrorSkipSearch(stage) == IF stage = "search" THEN "search" ELSE "failed"

\* pc after a service call raised at the given stage: nothing catches it.
OnError(stage) == "failed"

\* expand_query: one call of the generation service, then the parse;
\* back in retrieve_documents, all_docs = [] and the loop begins.
ExpandReturn ==
    /\ pc = "expand"
    /\ \E reply \in Replies :
          LET result == StrOutputParser([content |-> reply])
              parsed == ParseQueries(result)
          IN  /\ expanded_questions' = parsed
              /\ pc' = IF parsed = <<>> THEN "dedup" ELSE "search"
    /\ calls' = Append(calls, Call("llm", "expand", question, <<>>, 0))
    /\ qi' = 1
    /\ all_docs' = <<>>
    /\ UNCHANGED <<mode, question, k, seen, unique_docs, context, response,
                   answer, failedAt, surfaced>>

ExpandFail ==
    /\ pc = "expand"
    /\ calls' = Append(calls, Call("llm", "expand", question, <<>>, 0))
    /\ failedAt' = "expand"
    /\ pc' = OnError("expand")
    /\ UNCHANGED <<mode, question, k, expanded_questions, qi, all_docs, seen,
                   unique_docs, context, response, answer, surfaced>>

\* one iteration of: for q in expanded_questions
SearchReturn ==
    /\ pc = "search"
    /\ \E docs \in SearchResults(k) : all_docs' = all_docs \o docs
    /\ calls' = Append(calls, Call("index", "search",
                                   NextQuery(expanded_questions, qi), <<>>, k))
    /\ IF qi = Len(expanded_questions)
       THEN pc' = "dedup" /\ qi' = qi
       ELSE pc' = "search" /\ qi' = qi + 1
    /\ UNCHANGED <<mode, question, k, expanded_questions, seen, unique_docs,
                   context, response, answer, failedAt, surfaced>>

SearchFail ==
    /\ pc = "search"
    /\ calls' = Append(calls, Call("index", "search",
                                   NextQuery(expanded_questions, qi), <<>>, k))
    /\ failedAt' = "search"
    /\ pc' = OnError("search")
    /\ UNCHANGED <<mode, question, k, expanded_questions, qi, all_docs, seen,
                   unique_docs, context, response, answer, surfaced>>

\* seen = set() ... return unique_docs[:2]
Dedup ==
    /\ pc = "dedup"
    /\ LET r == Aggregate(all_docs, seen)
       IN  /\ seen' = r.seen
           /\ unique_docs' = r.result
    /\ pc' = IF mode = "answer" THEN "format" ELSE "returned"
    /\ UNCHANGED <<mode, question, k, expanded_questions, qi, all_docs,
                   context, response, answer, calls, failedAt, surfaced>>

\* RunnableLambda(format_doc)
Format ==
    /\ pc = "format"
    /\ context' = format_doc(unique_docs)
    /\ pc' = "generate"
    /\ UNCHANGED <<mode, question, k, expanded_questions, qi, all_docs, seen,
                   unique_docs, response, answer, calls, failedAt, surfaced>>

\* prompt | llm | StrOutputParser()
GenerateReturn ==
    /\ pc = "generate"
    /\ calls' = Append(calls, Call("llm", "answer", question, context, 0))
    /\ \E text \in Answers : response' = [content |-> text]
    /\ answer' = StrOutputParser(response')
    /\ pc' = "done"
    /\ UNCHANGED <<mode, question, k, expanded_questions, qi, all_docs, seen,
                   unique_docs, context, failedAt, surfaced>>

GenerateFail ==
    /\ pc = "generate"
    /\ calls' = Append(calls, Call("llm", "answer", question, context, 0))
    /\ failedAt' = "generate"
    /\ pc' = OnError("generate")
    /\ UNCHANGED <<mode, question, k, expanded_questions, qi, all_docs, seen,
                   unique_docs, context, response, answer, surfaced>>

Next ==
    \/ answer_question
    \/ retrieve_documents
    \/ ExpandReturn
    \/ ExpandFail
    \/ SearchReturn
    \/ SearchFail
    \/ Dedup
    \/ Format
    \/ GenerateReturn
    \/ GenerateFail

Spec == Init /\ [][Next]_vars

\* ================================================================ properties
\* retrieve_documents has returned in the running invocation.
Retrieved ==
    \/ pc \in {"format", "generate", "done", "returned"}
    \/ pc = "failed" /\ failedAt = "generate"

\* Positions of docs that hold the first occurrence of their page_content.
FirstOcc(docs) ==
    {i \in 1..Len(docs) :
        \A j \in 1..(i - 1) : docs[j].page_content # docs[i].page_content}

\* Number of distinct page_contents before position i.
DistinctBefore(docs, i) == Cardinality(Contents(SubSeq(docs, 1, i - 1)))

\* The similarity-search calls among the logged calls.
SearchCalls == SelectSeq(calls, LAMBDA c : c.svc = "index")

\* The final generation calls among the logged calls.
AnswerCalls == SelectSeq(calls, LAMBDA c : c.purpose = "answer")

\* ---------------------------------------------------------------------- C1
\* C1: whatever the question, the width k, the candidate queries and the
\* retrieval results, the list retrieve_documents returns has at most
\* FinalLimit (2) passages.
C1_LengthAtMostLimit == Len(unique_docs) <= FinalLimit

\* More than FinalLimit distinct passages were retrieved and the result is full.
C1_Witness ==
    /\ Retrieved
    /\ Cardinality(Contents(all_docs)) > FinalLimit
    /\ Len(unique_docs) = FinalLimit

\* ---------------------------------------------------------------------- C2
\* C2: the result is the first FinalLimit entries of all_docs (the
\* per-candidate lists concatenated in candidate-query order) with only the
\* first occurrence of each content kept: the p-th output is the passage at
\* the p-th first-occurrence position, and fewer than FinalLimit distinct
\* contents yield all of them, nothing added.
C2_FirstOccurrenceOrder ==
    Retrieved =>
        /\ Len(unique_docs) = Min(FinalLimit, Cardinality(FirstOcc(all_docs)))
        /\ \A p \in 1..Len(unique_docs) :
              \E i \in FirstOcc(all_docs) :
                  /\ Cardinality({j \in FirstOcc(all_docs) : j < i}) = p - 1
                  /\ unique_docs[p] = all_docs[i]

\* A later list repeats a content of an earlier one, and the second output
\* comes from behind the dropped repetition.
C2_Witness ==
    /\ Retrieved
    /\ Len(expanded_questions) >= 2
    /\ Len(unique_docs) = 2
    /\ \E i \in 2..Len(all_docs) :
          /\ i \notin FirstOcc(all_docs)
          /\ \E j \in (i + 1)..Len(all_docs) : unique_docs[2] = all_docs[j]
                                                 /\ j \in FirstOcc(all_docs)

\* ---------------------------------------------------------------------- C3
\* C3 as stated: no two passages of the result have contents that are equal
\* after trimming leading and trailing whitespace.
C3_UniqueOnTrimmedContent ==
    \A i, j \in 1..Len(unique_docs) :
        i # j => Strip(unique_docs[i].page_content) # Strip(unique_docs[j].page_content)

\* C3 amended: no two passages of the result have the same exact content;
\* the identity key is the untrimmed page_content.
C3_UniqueOnExactContent ==
    \A i, j \in 1..Len(unique_docs) :
        i # j => unique_docs[i].page_content # unique_docs[j].page_content

\* An exact repetition was dropped while two passages that differ only in
\* surrounding whitespace were both kept.
C3_Witness ==
    /\ Retrieved
    /\ Len(all_docs) > Cardinality(FirstOcc(all_docs))
    /\ Len(unique_docs) = 2
    /\ Strip(unique_docs[1].page_content) = Strip(unique_docs[2].page_content)

\* ---------------------------------------------------------------------- C4
\* C4: when the expansion reply parses to no candidate query, the pipeline
\* goes on with the original question as the only candidate: similarity
\* search is called exactly once, with the question.
C4_EmptyExpansionFallsBack ==
    (Retrieved /\ expanded_questions = <<>>) =>
        /\ Len(SearchCalls) = 1
        /\ SearchCalls[1].text = question

\* ---------------------------------------------------------------------- C5
\* C5: when the expansion call or a similarity-search call raises, the
\* invocation is aborted: the failing call is the last call made (no later
\* retrieval, no final generation call) and no answer text is returned.
C5_FailFast ==
    failedAt \in {"expand", "search"} =>
        /\ pc = "failed"
        /\ answer = NoAnswer
        /\ response = NoMessage
        /\ Len(AnswerCalls) = 0
        /\ failedAt = "expand" => Len(calls) = 1 /\ Len(SearchCalls) = 0
        /\ failedAt = "search" =>
              /\ Len(calls) = 1 + qi
              /\ Len(SearchCalls) = qi
              /\ calls[Len(calls)].text = expanded_questions[qi]

\* The first of two similarity searches raised: the second was never made.
C5_Witness ==
    /\ pc = "failed"
    /\ failedAt = "search"
    /\ mode = "answer"
    /\ qi = 1
    /\ Len(expanded_questions) = 2

\* ---------------------------------------------------------------------- C6
\* C6 as stated: with nonzero k, a chunk the index returned for at least one
\* candidate query is never absent from the result.
C6_EveryReturnedChunkKept ==
    (Retrieved /\ k # 0) =>
        \A i \in 1..Len(all_docs) :
            all_docs[i].page_content \in Contents(unique_docs)

\* C6 amended: a chunk the index returned is in the result whenever fewer
\* than FinalLimit distinct contents precede its first occurrence in the
\* concatenated results; in particular none is absent when the fan-out
\* yields at most FinalLimit distinct contents.
C6_KeptWithinLimit ==
    Retrieved =>
        \A i \in FirstOcc(all_docs) :
            DistinctBefore(all_docs, i) < FinalLimit => \E p \in 1..Len(unique_docs) :
                                                             unique_docs[p] = all_docs[i]

\* Two chunks were kept and a third, distinct one was cut off.
C6_Witness ==
    /\ Retrieved
    /\ k # 0
    /\ Len(unique_docs) = FinalLimit
    /\ \E i \in 1..Len(all_docs) :
          all_docs[i].page_content \notin Contents(unique_docs)

\* ---------------------------------------------------------------------- C7
\* C7: deduplication is idempotent: the aggregation step applied to its own
\* result, taken as one passage list, returns that result.
C7_Idempotent ==
    Retrieved => Aggregate(unique_docs, seen).result = unique_docs

\* The single pass had repetitions to drop and passages to cut off.
C7_Witness ==
    /\ Retrieved
    /\ Len(all_docs) > Cardinality(FirstOcc(all_docs))
    /\ Cardinality(FirstOcc(all_docs)) > FinalLimit
    /\ Aggregate(unique_docs, seen).result # all_docs

\* ---------------------------------------------------------------------- C8
\* A passage's text with each line break turned into a space, then without
\* the whitespace at its ends.
Normalised(text) ==
    LET spaced == [i \in 1..Len(text) |-> IF text[i] = NL THEN SP ELSE text[i]]
        solid  == {i \in 1..Len(text) : spaced[i] \notin Whitespace}
    IN  IF solid = {} THEN <<>>
        ELSE SubSeq(spaced,
                    CHOOSE i \in solid : \A j \in solid : i <= j,
                    CHOOSE i \in solid : \A j \in solid : j <= i)

\* The first n passages, normalised, with a blank line between neighbours.
RECURSIVE Blocks(_, _)
Blocks(docs, n) ==
    IF n = 0 THEN <<>>
    ELSE IF n = 1 THEN Normalised(docs[1].page_content)
    ELSE Blocks(docs, n - 1) \o <<NL, NL>> \o Normalised(docs[n].page_content)

\* format_doc has run in the running invocation.
Formatted ==
    \/ pc \in {"generate", "done"}
    \/ pc = "failed" /\ failedAt = "generate"

\* C8: the formatted context is the passages in input order, each with its
\* line breaks replaced by single spaces and then trimmed, joined by two
\* line breaks; for no passages it is the empty string.
C8_FormattedContext ==
    Formatted =>
        /\ context = Blocks(unique_docs, Len(unique_docs))
        /\ unique_docs = <<>> => context = <<>>

\* Two passages were formatted, one with an embedded line break and one with
\* whitespace at its ends.
C8_Witness ==
    /\ Formatted
    /\ Len(unique_docs) = 2
    /\ \E i, j \in 1..2 :
          /\ unique_docs[i].page_content = <<"a", NL, "b">>
          /\ unique_docs[j].page_content = <<NL, "a", SP>>
    /\ Len(context) = 6

\* ---------------------------------------------------------------------- C9
\* C9: nothing crosses invocations: the result of each invocation is what the
\* deduplication started from an empty seen set makes of that invocation's
\* own retrieval results, so a content surfaced by an earlier invocation is
\* kept like any other, and the answer is the text of that invocation's own
\* response.
C9_NoCrossCallState ==
    /\ Retrieved =>
          /\ unique_docs = Truncate(DedupLoop(all_docs, 1, {}, <<>>).unique_docs)
          /\ \A i \in 1..Len(all_docs) :
                (all_docs[i].page_content \in surfaced
                    /\ DistinctBefore(all_docs, i) < FinalLimit)
                => all_docs[i].page_content \in Contents(unique_docs)
    /\ pc = "done" => answer = response.content
    /\ pc = "expand" => calls = <<>> /\ all_docs = <<>> /\ unique_docs = <<>>
                          /\ answer = NoAnswer

\* A later invocation returned, in first place, a content that an earlier
\* invocation had already returned.
C9_Witness ==
    /\ surfaced # {}
    /\ Retrieved
    /\ unique_docs # <<>>
    /\ unique_docs[1].page_content \in surfaced

\* --------------------------------------------------------------------- C10
\* The calls an answer_question run without failure has made once n
\* similarity searches have returned, the final call included or not.
ExpectedCalls(n, final) ==
    <<Call("llm", "expand", question, <<>>, 0)>>
    \o [i \in 1..n |-> Call("index", "search", expanded_questions[i], <<>>, k)]
    \o (IF final THEN <<Call("llm", "answer", question, context, 0)>> ELSE <<>>)

\* C10: in an answer_question run without a service failure the calls are, in
\* this order: one expansion call, one similarity search per candidate query
\* in candidate-query order with the same k, and, only after all of them have
\* returned, one final generation call, made also for an empty context; its
\* response is returned as the answer, unmodified.
C10_CallOrder ==
    (mode = "answer" /\ failedAt = "none") =>
        /\ pc = "search" => calls = ExpectedCalls(qi - 1, FALSE)
        /\ pc \in {"dedup", "format", "generate"} =>
              calls = ExpectedCalls(Len(expanded_questions), FALSE)
        /\ pc = "done" =>
              /\ calls = ExpectedCalls(Len(expanded_questions), TRUE)
              /\ answer = response.content
              /\ answer \in Answers

\* A finished run with two different candidate queries whose searches
\* returned nothing: the final call was made with the empty context.
C10_Witness ==
    /\ pc = "done"
    /\ Len(expanded_questions) = 2
    /\ expanded_questions[1] # expanded_questions[2]
    /\ context = <<>>
    /\ Len(calls) = 4

====
